---- MODULE Spec2Model ----
(***************************************************************************)
(* The resumable upload endpoint of src/app/api/tus/[[...path]]/route.ts:  *)
(* POST (create, optionally with data), PATCH (append), HEAD (status) and  *)
(* DELETE (cancel), each handler cut at its await points, acting on the    *)
(* upload directory (one blob and one .json side file per upload id) and   *)
(* on the files table of the database.  Spec is the endpoint alone;        *)
(* SpecExpiry adds the clock and cleanupExpiredTransfers of lib/cleanup.ts;*)
(* SpecFaults adds file system and database calls of PATCH that throw.     *)
(***************************************************************************)
EXTENDS Integers, Sequences, FiniteSets, TLC

\* ------------------------------------------------------------ bounds
\* longest request body
MaxBody == 1
\* no body is read that would make a blob or an offset exceed this
MaxBlob == 2
\* declared sizes 0..MaxDeclared (plus one above the ceiling)
MaxDeclared == 2

\* ------------------------------------------------------------ constants
\* route.ts:8  const MAX_SIZE = 100 * 1024 * 1024 * 1024, counted in GiB: the
\* model checker's integers are 32 bits wide, so every length and offset of
\* this module is in that one unit, and a "byte" of a body is one such unit
MAX_SIZE == 100

Handlers == {"h1", "h2"}
\* the ids uuidv4 hands out, in the order it hands them out
UploadOrder == <<"u1", "u2">>
UploadIds == {UploadOrder[i] : i \in 1..Len(UploadOrder)}
\* an id no POST ever generated
BogusId == "ux"
AllIds == UploadIds \cup {BogusId}
TransferIds == {"t1"}
\* metadata without a transferId
NoTransfer == "none"
NoId == "none"
\* a response without an Upload-Offset / Upload-Length header
NoHeader == -1

\* transfer-wizard.tsx 179: the client uploads one file with tus.Upload, each
\* request carrying the bytes of the file that follow the offset it claims; the
\* byte at position k of the file is written k, so a byte stored twice or out
\* of place shows in the blob
FileByte(k) == k
Payload(claimed, n) == [i \in 1..n |-> FileByte(claimed + i)]
BodyLengths == 0..MaxBody

Lengths == (0..MaxDeclared) \cup {MAX_SIZE + 1}
ClaimedOffsets == 0..MaxBlob
TidInputs == TransferIds \cup {NoTransfer}

\* ------------------------------------------------------------ state
VARIABLES
  transfers,   \* ids of the rows of the transfers table
  metaFile,    \* UPLOAD_DIR/<id>.json : the offset record
  blob,        \* UPLOAD_DIR/<id>      : the raw bytes
  fileRec,     \* rows of the files table, keyed by upload id
  allocated,   \* upload ids uuidv4 has produced
  issued,      \* upload ids a client learnt from a 201 response
  req,         \* one record per request handler: position, inputs, locals, response
  accepted,    \* history: payloads applied to each upload, in order of application
  remarked,    \* history: a completion update ran on an already complete row
  pastExpiry,  \* ids of the transfers whose expiresAt lies before the present
  transferStatus, \* status column of the transfers table
  cancelled,   \* history: upload ids for which a DELETE was answered
  fresh        \* history: the handler's 409, or its PATCH past the offset check
               \* after a 409, with no other request on the upload since

vars == <<transfers, metaFile, blob, fileRec, allocated, issued, req, accepted, remarked,
          pastExpiry, transferStatus, cancelled, fresh>>

\* the transfers table
transferVars == <<transfers, pastExpiry, transferStatus>>

NoMeta == [present |-> FALSE, size |-> 0, offset |-> 0, transferId |-> NoTransfer]
NoBlob == [present |-> FALSE, bytes |-> <<>>]
NoRec == [present |-> FALSE, transferId |-> NoTransfer, size |-> 0,
          uploadOffset |-> 0, uploadComplete |-> FALSE]

IdleReq ==
  [pc |-> "idle", method |-> "none", id |-> NoId, transferId |-> NoTransfer,
   length |-> 0, claimed |-> 0, meta |-> NoMeta,
   status |-> 0, respOffset |-> NoHeader, respLength |-> NoHeader, raced |-> FALSE]

Init ==
  /\ transfers = {}
  /\ metaFile = [u \in AllIds |-> NoMeta]
  /\ blob = [u \in AllIds |-> NoBlob]
  /\ fileRec = [u \in AllIds |-> NoRec]
  /\ allocated = {}
  /\ issued = {}
  /\ req = [h \in Handlers |-> IdleReq]
  /\ accepted = [u \in AllIds |-> <<>>]
  /\ remarked = [u \in AllIds |-> FALSE]
  /\ pastExpiry = {}
  /\ transferStatus = [t \in TransferIds |-> "pending"]
  /\ cancelled = {}
  /\ fresh = [h \in Handlers |-> FALSE]

\* ------------------------------------------------------------ helpers
\* new Response(..., {status}) : the handler is finished
Respond(r, st, off, len) ==
  [IdleReq EXCEPT !.pc = "done", !.method = r.method, !.id = r.id,
                  !.claimed = r.claimed, !.raced = r.raced,
                  !.status = st, !.respOffset = off, !.respLength = len]

\* a handler slot that can take a request: its last response, if any, is still
\* on record until then
Free(h) == req[h].pc \in {"idle", "done"}

\* an unlink that empties the whole upload directory
UnlinkedAll(files, u, none) == [v \in DOMAIN files |-> none]

\* route.ts 298-299: unlinkSync of the one path made from the upload id
Unlinked(files, u, none) == [files EXCEPT ![u] = none]

\* appendFileSync(filePath, data): creates the file when it is missing
AppendFile(b, data) == [present |-> TRUE, bytes |-> b.bytes \o data]

\* an update of the offset record that also overwrites the declared size
AdvancedAndResized(meta, newOffset) == [meta EXCEPT !.offset = newOffset, !.size = newOffset]

\* route.ts 120-122 and 193-195: meta.offset = ...; writeFileSync(metadataPath,
\* JSON.stringify(meta)) : the parsed record with its offset replaced
Advanced(meta, newOffset) == [meta EXCEPT !.offset = newOffset]

\* admission bound of the model: a body is read only if the blob and the offset
\* it leads to stay within MaxBlob
Fits(u, offset, body) ==
  /\ Len(blob[u].bytes) + Len(body) <= MaxBlob
  /\ offset + Len(body) <= MaxBlob

\* ------------------------------------------------------------ transfers
\* POST /api/transfers : prisma.transfer.create
CreateTransfer(t) ==
  /\ t \notin transfers
  /\ transferStatus[t] # "gone"
  /\ transfers' = transfers \cup {t}
  /\ transferStatus' = [transferStatus EXCEPT ![t] = "pending"]
  /\ UNCHANGED <<metaFile, blob, fileRec, allocated, issued, req, accepted, remarked,
                 pastExpiry, cancelled, fresh>>

\* lib/cleanup.ts 15-17, expiresAt lt new Date(): the clock passes the expiresAt
\* that transfers/route.ts 54 gave the transfer
Expire(t) ==
  /\ t \in transfers \ pastExpiry
  /\ pastExpiry' = pastExpiry \cup {t}
  /\ UNCHANGED <<transfers, transferStatus, metaFile, blob, fileRec, allocated,
                 issued, req, accepted, remarked, cancelled, fresh>>

\* lib/cleanup.ts 13-53, cleanupExpiredTransfers for one transfer of its
\* findMany result (expired, not marked deleted, with its files rows): the blob
\* of every files row is unlinked (file.filename is the upload id; the .json
\* side file is not touched), then the transfer is marked deleted
Cleanup(t) ==
  /\ t \in transfers \cap pastExpiry
  /\ transferStatus[t] # "deleted"
  /\ blob' = [u \in AllIds |->
               IF fileRec[u].present /\ fileRec[u].transferId = t THEN NoBlob
               ELSE blob[u]]
  /\ transferStatus' = [transferStatus EXCEPT ![t] = "deleted"]
  /\ UNCHANGED <<transfers, pastExpiry, metaFile, fileRec, allocated, issued, req,
                 accepted, remarked, cancelled, fresh>>

\* transfers/[id]/route.ts 81-109, DELETE by the owner: the blob of every files
\* row of the transfer is unlinked (the .json side file is not touched), then
\* the transfer row is deleted and the database cascades to its files rows;
\* the id of a deleted transfer is never given to a new one
DeleteTransfer(t) ==
  /\ t \in transfers
  /\ blob' = [u \in AllIds |->
               IF fileRec[u].present /\ fileRec[u].transferId = t THEN NoBlob
               ELSE blob[u]]
  /\ fileRec' = [u \in AllIds |->
                  IF fileRec[u].present /\ fileRec[u].transferId = t THEN NoRec
                  ELSE fileRec[u]]
  /\ remarked' = [u \in AllIds |->
                   IF fileRec[u].present /\ fileRec[u].transferId = t THEN FALSE
                   ELSE remarked[u]]
  /\ transfers' = transfers \ {t}
  /\ pastExpiry' = pastExpiry \ {t}
  /\ transferStatus' = [transferStatus EXCEPT ![t] = "gone"]
  /\ UNCHANGED <<metaFile, allocated, issued, req, accepted, cancelled, fresh>>

\* ------------------------------------------------------------ POST
\* route.ts 59-76: headers parsed, 400 without transferId, findUnique issued
\* ids being the upload ids that the POST requests of a run may use up
PostStartWithin(ids, h, len, tid) ==
  /\ Free(h)
  /\ Cardinality(allocated) + Cardinality({g \in Handlers : req[g].pc = "post_find"})
       < Cardinality(ids)
  /\ LET r == [IdleReq EXCEPT !.method = "POST", !.length = len,
                              !.transferId = tid]
     IN req' = [req EXCEPT ![h] =
                  IF tid = NoTransfer THEN Respond(r, 400, NoHeader, NoHeader)
                  ELSE [r EXCEPT !.pc = "post_find"]]
  /\ fresh' = [fresh EXCEPT ![h] = FALSE]
  /\ UNCHANGED <<transferVars, cancelled, metaFile, blob, fileRec, allocated, issued,
                 accepted, remarked>>

\* a run with one upload
PostStart(h, len, tid) == PostStartWithin({UploadOrder[1]}, h, len, tid)

\* a run with every upload id of UploadOrder
PostStartAny(h, len, tid) == PostStartWithin(UploadIds, h, len, tid)

\* a lookup that finds a row whatever id it is given
TransferFoundAlways(tid) == TRUE

\* route.ts 74-78: findUnique({where: {id: transferId}}) returned a row
TransferFound(tid) == tid \in transfers

\* route.ts 74-112: findUnique answers; 404, or id generated, empty blob and
\* offset record written, file.create issued
PostFind(h) ==
  /\ req[h].pc = "post_find"
  /\ IF ~TransferFound(req[h].transferId)
     THEN /\ req' = [req EXCEPT ![h] = Respond(@, 404, NoHeader, NoHeader)]
          /\ UNCHANGED <<metaFile, blob, allocated>>
     ELSE LET u == UploadOrder[Cardinality(allocated) + 1]
          IN
            /\ allocated' = allocated \cup {u}
            /\ blob' = [blob EXCEPT ![u] = [present |-> TRUE, bytes |-> <<>>]]
            /\ metaFile' = [metaFile EXCEPT ![u] =
                 [present |-> TRUE, size |-> req[h].length, offset |-> 0,
                  transferId |-> req[h].transferId]]
            /\ req' = [req EXCEPT ![h].pc = "post_create", ![h].id = u]
  /\ UNCHANGED <<transferVars, cancelled, fresh, fileRec, issued, accepted, remarked>>

\* route.ts 103-115: file.create runs (foreign key on the transfer), body awaited
PostCreate(h) ==
  /\ req[h].pc = "post_create"
  /\ IF req[h].transferId \notin transfers \/ fileRec[req[h].id].present
     THEN /\ req' = [req EXCEPT ![h] = Respond(@, 500, NoHeader, NoHeader)]
          /\ UNCHANGED fileRec
     ELSE /\ fileRec' = [fileRec EXCEPT ![req[h].id] =
                 [present |-> TRUE, transferId |-> req[h].transferId,
                  size |-> req[h].length, uploadOffset |-> 0,
                  uploadComplete |-> FALSE]]
          /\ req' = [req EXCEPT ![h].pc = "post_body"]
  /\ UNCHANGED <<transferVars, cancelled, fresh, metaFile, blob, allocated, issued,
                 accepted, remarked>>

\* route.ts 115-137: the body arrives; creation-with-upload, then 201 with
\* Location and Upload-Offset
PostBody(h, n) ==
  /\ req[h].pc = "post_body"
  /\ Fits(req[h].id, 0, Payload(0, n))
  /\ LET u == req[h].id
         body == Payload(0, n)
     IN IF Len(body) > 0
        THEN /\ blob' = [blob EXCEPT ![u] = AppendFile(@, body)]
             /\ IF ~metaFile[u].present
                THEN \* readFileSync throws ENOENT
                     /\ req' = [req EXCEPT ![h] = Respond(@, 500, NoHeader, NoHeader)]
                     /\ UNCHANGED <<metaFile, issued, accepted>>
                ELSE /\ metaFile' = [metaFile EXCEPT ![u] = Advanced(@, Len(body))]
                     /\ accepted' = [accepted EXCEPT ![u] = @ \o body]
                     /\ req' = [req EXCEPT ![h] = Respond(@, 201, Len(body), NoHeader)]
                     /\ issued' = issued \cup {u}
        ELSE /\ req' = [req EXCEPT ![h] = Respond(@, 201, 0, NoHeader)]
             /\ issued' = issued \cup {u}
             /\ UNCHANGED <<metaFile, blob, accepted>>
  /\ UNCHANGED <<transferVars, cancelled, fresh, fileRec, allocated, remarked>>

\* ------------------------------------------------------------ PATCH
\* a check that would also let through a client that is ahead of the server
OffsetMatchesOrAhead(claimed, stored) == claimed >= stored

\* route.ts 177: uploadOffset !== meta.offset is the negation of this
OffsetMatches(claimed, stored) == claimed = stored

\* a completion test that misses the upload that ends exactly at its size
ReachedPastSize(newOffset, size) == newOffset > size

\* route.ts 198: newOffset >= meta.size
ReachedSize(newOffset, size) == newOffset >= size

\* a test that finds an offset record for every id
HasRecordAlways(u) == TRUE

\* route.ts 166 and 250: existsSync(metadataPath)
HasRecord(u) == metaFile[u].present

\* fresh[h] after handler h took a request on upload u: mine for h itself, and
\* no longer fresh for the other handlers whose request was on u
Staled(h, u, mine) ==
  [g \in Handlers |-> IF g = h THEN mine ELSE IF req[g].id = u THEN FALSE ELSE fresh[g]]

\* the PATCH for upload u at this claimed offset follows a fresh 409 that
\* reported that offset
Resumes(u, claimed) ==
  \E k \in Handlers :
    /\ req[k].pc = "done" /\ req[k].method = "PATCH" /\ req[k].status = 409
    /\ req[k].id = u /\ req[k].respOffset = claimed /\ fresh[k]

\* route.ts 153-188: 404 without offset record (before the Upload-Offset header
\* is read), 409 on offset mismatch, else the record is kept in the local meta
\* and the body awaited
PatchStart(h, u, claimed) ==
  /\ Free(h)
  /\ u \in issued \cup {BogusId}
  /\ LET r == [IdleReq EXCEPT !.method = "PATCH", !.id = u, !.claimed = claimed]
         rivals == {g \in Handlers \ {h} :
                      /\ req[g].pc = "patch_body"
                      /\ req[g].id = u
                      /\ req[g].claimed = claimed}
         others == \E g \in Handlers \ {h} : ~Free(g) /\ req[g].id = u
     IN IF ~HasRecord(u)
        THEN /\ req' = [req EXCEPT ![h] =
                          Respond([r EXCEPT !.claimed = 0], 404, NoHeader, NoHeader)]
             /\ fresh' = Staled(h, u, FALSE)
        ELSE IF ~OffsetMatches(claimed, metaFile[u].offset)
        THEN /\ req' = [req EXCEPT ![h] = Respond(r, 409, metaFile[u].offset, NoHeader)]
             /\ fresh' = Staled(h, u, ~others)
        ELSE /\ req' = [g \in Handlers |->
                          IF g = h
                          THEN [r EXCEPT !.pc = "patch_body", !.meta = metaFile[u],
                                         !.raced = (rivals # {})]
                          ELSE IF g \in rivals THEN [req[g] EXCEPT !.raced = TRUE]
                          ELSE req[g]]
             /\ fresh' = Staled(h, u, Resumes(u, claimed) /\ ~others)
  /\ UNCHANGED <<transferVars, cancelled, metaFile, blob, fileRec, allocated, issued,
                 accepted, remarked>>

\* route.ts 188-199: body arrived; append, offset record rewritten from the local
\* meta, file.update issued
PatchWrite(h, n) ==
  /\ req[h].pc = "patch_body"
  /\ Fits(req[h].id, req[h].meta.offset, Payload(req[h].claimed, n))
  /\ LET u == req[h].id
         body == Payload(req[h].claimed, n)
         newOffset == req[h].meta.offset + Len(body)
     IN /\ blob' = IF Len(body) > 0
                   THEN [blob EXCEPT ![u] = AppendFile(@, body)]
                   ELSE blob
        /\ metaFile' = [metaFile EXCEPT ![u] = Advanced(req[h].meta, newOffset)]
        /\ accepted' = [accepted EXCEPT ![u] = @ \o body]
        /\ req' = [req EXCEPT ![h].pc = "patch_update", ![h].meta.offset = newOffset]
  /\ UNCHANGED <<transferVars, cancelled, fresh, fileRec, allocated, issued, remarked>>

\* route.ts 198-222: file.update runs (it throws when the row is gone), then 204
PatchUpdate(h) ==
  /\ req[h].pc = "patch_update"
  /\ LET u == req[h].id
         newOffset == req[h].meta.offset
     IN IF ~fileRec[u].present
        THEN /\ req' = [req EXCEPT ![h] = Respond(@, 500, NoHeader, NoHeader)]
             /\ UNCHANGED <<fileRec, remarked>>
        ELSE /\ IF ReachedSize(newOffset, req[h].meta.size)
                THEN /\ fileRec' = [fileRec EXCEPT ![u].uploadComplete = TRUE,
                                                   ![u].uploadOffset = newOffset,
                                                   ![u].size = newOffset]
                     /\ remarked' = [remarked EXCEPT ![u] = @ \/ fileRec[u].uploadComplete]
                ELSE /\ fileRec' = [fileRec EXCEPT ![u].uploadOffset = newOffset]
                     /\ UNCHANGED remarked
             /\ req' = [req EXCEPT ![h] = Respond(@, 204, newOffset, NoHeader)]
  /\ fresh' = [fresh EXCEPT ![h] = FALSE]
  /\ UNCHANGED <<transferVars, cancelled, metaFile, blob, allocated, issued, accepted>>

\* ------------------------------------------------------------ HEAD
\* route.ts 233-275
HEAD(h, u) ==
  /\ Free(h)
  /\ u \in issued \cup {BogusId}
  /\ LET r == [IdleReq EXCEPT !.method = "HEAD", !.id = u]
     IN req' = [req EXCEPT ![h] =
                  IF ~HasRecord(u)
                  THEN Respond(r, 404, NoHeader, NoHeader)
                  ELSE Respond(r, 200, metaFile[u].offset, metaFile[u].size)]
  /\ fresh' = Staled(h, u, FALSE)
  /\ UNCHANGED <<transferVars, cancelled, metaFile, blob, fileRec, allocated, issued,
                 accepted, remarked>>

\* ------------------------------------------------------------ DELETE
\* route.ts 283-304: both files unlinked, file.delete issued; the record keeps,
\* as history, the offset record the upload had when the DELETE arrived
DeleteStart(h, u) ==
  /\ Free(h)
  /\ u \in issued \cup {BogusId}
  /\ blob' = Unlinked(blob, u, NoBlob)
  /\ metaFile' = Unlinked(metaFile, u, NoMeta)
  /\ accepted' = [accepted EXCEPT ![u] = <<>>]
  /\ req' = [req EXCEPT ![h] = [IdleReq EXCEPT !.method = "DELETE", !.id = u,
                                               !.pc = "delete_db",
                                               !.meta = metaFile[u]]]
  /\ fresh' = Staled(h, u, FALSE)
  /\ UNCHANGED <<transferVars, cancelled, fileRec, allocated, issued, remarked>>

\* route.ts 302-309: file.delete runs, its failure is swallowed, then 204
DeleteDb(h) ==
  /\ req[h].pc = "delete_db"
  /\ fileRec' = [fileRec EXCEPT ![req[h].id] = NoRec]
  /\ remarked' = [remarked EXCEPT ![req[h].id] = FALSE]
  /\ cancelled' = cancelled \cup ({req[h].id} \cap UploadIds)
  /\ req' = [req EXCEPT ![h] = Respond(@, 204, NoHeader, NoHeader)]
  /\ UNCHANGED <<transferVars, fresh, metaFile, blob, allocated, issued, accepted>>

Next ==
  \/ \E t \in TransferIds : CreateTransfer(t)
  \/ \E h \in Handlers, len \in Lengths, tid \in TidInputs : PostStart(h, len, tid)
  \/ \E h \in Handlers : PostFind(h)
  \/ \E h \in Handlers : PostCreate(h)
  \/ \E h \in Handlers, n \in BodyLengths : PostBody(h, n)
  \/ \E h \in Handlers, u \in AllIds, c \in ClaimedOffsets : PatchStart(h, u, c)
  \/ \E h \in Handlers, n \in BodyLengths : PatchWrite(h, n)
  \/ \E h \in Handlers : PatchUpdate(h)
  \/ \E h \in Handlers, u \in AllIds : HEAD(h, u)
  \/ \E h \in Handlers, u \in AllIds : DeleteStart(h, u)
  \/ \E h \in Handlers : DeleteDb(h)

Spec == Init /\ [][Next]_vars

\* ------------------------------------------------------------ retention
NextExpiry ==
  \/ Next
  \/ \E t \in TransferIds : Expire(t)
  \/ \E t \in TransferIds : Cleanup(t)

\* the endpoint beside the clock and the hourly cleanup of expired transfers
SpecExpiry == Init /\ [][NextExpiry]_vars

\* ------------------------------------------------------------ two uploads
\* both uploads declare the length of one full body, on an existing transfer;
\* a PATCH claims offset 0, and a body is empty or the whole file
NextTwo ==
  \/ \E t \in TransferIds : CreateTransfer(t)
  \/ \E h \in Handlers, tid \in TransferIds : PostStartAny(h, MaxBody, tid)
  \/ \E h \in Handlers : PostFind(h)
  \/ \E h \in Handlers : PostCreate(h)
  \/ \E h \in Handlers, n \in {0, MaxBody} : PostBody(h, n)
  \/ \E h \in Handlers, u \in UploadIds : PatchStart(h, u, 0)
  \/ \E h \in Handlers, n \in {0, MaxBody} : PatchWrite(h, n)
  \/ \E h \in Handlers : PatchUpdate(h)
  \/ \E h \in Handlers, u \in UploadIds : HEAD(h, u)
  \/ \E h \in Handlers, u \in UploadIds : DeleteStart(h, u)
  \/ \E h \in Handlers : DeleteDb(h)

\* the endpoint with two uploads side by side
SpecTwo == Init /\ [][NextTwo]_vars

\* ------------------------------------------------------------ owner
NextOwner ==
  \/ Next
  \/ \E t \in TransferIds : DeleteTransfer(t)

\* the endpoint beside the owner deleting the transfer
SpecOwner == Init /\ [][NextOwner]_vars

\* ------------------------------------------------------------ storage faults
\* the calls of PATCH that can throw into its catch block (route.ts 223-229)
FsCalls == {"appendFileSync", "writeFileSync"}

\* route.ts 188-195, 223-229: the body arrived and a file system call throws;
\* appendFileSync (called for a body that is not empty) before it stored
\* anything, or writeFileSync of the offset record after the body was appended
PatchWriteThrows(h, n, call) ==
  /\ req[h].pc = "patch_body"
  /\ Fits(req[h].id, req[h].meta.offset, Payload(req[h].claimed, n))
  /\ call = "appendFileSync" => n > 0
  /\ LET u == req[h].id
         body == Payload(req[h].claimed, n)
     IN blob' = IF call = "writeFileSync" /\ Len(body) > 0
                THEN [blob EXCEPT ![u] = AppendFile(@, body)]
                ELSE blob
  /\ req' = [req EXCEPT ![h] = Respond(@, 500, NoHeader, NoHeader)]
  /\ fresh' = [fresh EXCEPT ![h] = FALSE]
  /\ UNCHANGED <<transferVars, cancelled, metaFile, fileRec, allocated, issued, accepted,
                 remarked>>

\* route.ts 198-214, 223-229: prisma.file.update rejects (database unreachable,
\* locked or timed out) after the blob and the offset record were written
PatchUpdateThrows(h) ==
  /\ req[h].pc = "patch_update"
  /\ req' = [req EXCEPT ![h] = Respond(@, 500, NoHeader, NoHeader)]
  /\ fresh' = [fresh EXCEPT ![h] = FALSE]
  /\ UNCHANGED <<transferVars, cancelled, metaFile, blob, fileRec, allocated, issued,
                 accepted, remarked>>

NextFaults ==
  \/ Next
  \/ \E h \in Handlers, n \in BodyLengths, call \in FsCalls : PatchWriteThrows(h, n, call)
  \/ \E h \in Handlers : PatchUpdateThrows(h)

\* the endpoint on storage whose calls can fail
SpecFaults == Init /\ [][NextFaults]_vars

TypeOK ==
  /\ transfers \subseteq TransferIds
  /\ allocated \subseteq UploadIds
  /\ issued \subseteq allocated
  /\ \A u \in AllIds : metaFile[u].offset >= 0

\* ------------------------------------------------------------ properties
\* a request that names upload u is between its first and its last step
InFlight(u) == \E h \in Handlers : ~Free(h) /\ req[h].id = u
Quiet(u) == ~InFlight(u)

\* handler h takes a new PATCH request in this step
TakesPatch(h) == Free(h) /\ req'[h] # req[h] /\ req'[h].method = "PATCH"

ClientErrors == 400..499

\* C1: in every reachable state every offset record has 0 <= offset <= size
C1_OffsetWithinDeclaredSize ==
  \A u \in AllIds :
    metaFile[u].present =>
      0 <= metaFile[u].offset /\ metaFile[u].offset <= metaFile[u].size

\* C2: whenever no request on an upload is in flight, its blob is the
\* concatenation of the applied payloads in order and is as long as the stored offset
C2_BlobIsAcceptedConcat ==
  \A u \in AllIds :
    (metaFile[u].present /\ fileRec[u].present /\ Quiet(u)) =>
      /\ blob[u].bytes = accepted[u]
      /\ Len(blob[u].bytes) = metaFile[u].offset

\* a PATCH that was answered 204 and carried a payload
AcceptedWithData(h) ==
  /\ req[h].pc = "done" /\ req[h].method = "PATCH"
  /\ req[h].status = 204 /\ req[h].respOffset > req[h].claimed

\* C3: two payload-carrying PATCH requests on one upload with the same claimed
\* offset whose handlers overlapped are never both accepted
C3_NeverBothAccepted ==
  \A h \in Handlers : \A g \in Handlers \ {h} :
    (/\ req[h].raced /\ req[g].raced
     /\ req[h].id = req[g].id /\ req[h].claimed = req[g].claimed)
    => ~(AcceptedWithData(h) /\ AcceptedWithData(g))

\* C4: a PATCH whose claimed offset differs from the stored offset is answered
\* 409 with the stored offset, and the offset record, the blob and the files
\* row stay as they were
C4_MismatchRejected ==
  [][\A h \in Handlers :
       (/\ TakesPatch(h)
        /\ metaFile[req'[h].id].present
        /\ req'[h].claimed # metaFile[req'[h].id].offset)
       => (/\ req'[h].pc = "done"
           /\ req'[h].status = 409
           /\ req'[h].respOffset = metaFile[req'[h].id].offset
           /\ UNCHANGED <<metaFile, blob, fileRec>>)]_vars

\* C4 witness: one PATCH was refused for being behind and one for being ahead
C4_Witness ==
  \E h \in Handlers : \E g \in Handlers :
    /\ req[h].pc = "done" /\ req[h].method = "PATCH" /\ req[h].status = 409
    /\ req[h].claimed < req[h].respOffset
    /\ req[g].pc = "done" /\ req[g].method = "PATCH" /\ req[g].status = 409
    /\ req[g].claimed > req[g].respOffset

\* C5: no step stores a smaller offset than the one stored before
C5_OffsetMonotone ==
  [][\A u \in AllIds :
       (metaFile[u].present /\ metaFile'[u].present)
       => metaFile'[u].offset >= metaFile[u].offset]_vars

\* C6: whenever no request on an upload is in flight, its files row is marked
\* complete exactly when the stored offset equals the declared size
C6_CompleteIffFull ==
  \A u \in AllIds :
    (metaFile[u].present /\ fileRec[u].present /\ Quiet(u)) =>
      (fileRec[u].uploadComplete <=> metaFile[u].offset = metaFile[u].size)

\* C7: the completion flag never goes back to false and the completion update
\* is never run on a row that is already complete
C7_CompletesOnce ==
  [][\A u \in AllIds :
       /\ (fileRec[u].uploadComplete /\ fileRec'[u].present)
            => fileRec'[u].uploadComplete
       /\ ~remarked'[u]]_vars

\* C8: a PATCH on an upload that is already complete (its stored offset equals
\* its declared size and its files row is marked complete) is answered 409
\* whatever it claims and carries, and changes nothing
C8_CompleteRejectsAppend ==
  [][\A h \in Handlers :
       (/\ TakesPatch(h)
        /\ metaFile[req'[h].id].present
        /\ metaFile[req'[h].id].offset = metaFile[req'[h].id].size
        /\ fileRec[req'[h].id].uploadComplete)
       => (/\ req'[h].pc = "done"
           /\ req'[h].status = 409
           /\ UNCHANGED <<metaFile, blob, fileRec>>)]_vars

\* C9: when the body of a PATCH that passed the offset check arrives and would
\* take the offset past the declared size, the request ends with a client
\* error, the blob and the offset record untouched
C9_OversizedRejected ==
  [][\A h \in Handlers :
       (/\ req[h].pc = "patch_body"
        /\ \E n \in BodyLengths :
             /\ PatchWrite(h, n)
             /\ req[h].meta.offset + n > req[h].meta.size)
       => (/\ req'[h].pc = "done"
           /\ req'[h].status \in ClientErrors
           /\ blob' = blob
           /\ metaFile' = metaFile)]_vars

\* C10: a POST that declares more than MAX_SIZE gets no upload id, and no
\* offset record, blob or files row is made for it
C10_CeilingEnforced ==
  /\ \A h \in Handlers :
       (req[h].method = "POST" /\ req[h].length > MAX_SIZE) => req[h].id = NoId
  /\ \A u \in AllIds : metaFile[u].present => metaFile[u].size <= MAX_SIZE

\* C11: a POST whose metadata carries no transferId, or one that is not the id
\* of a row of the transfers table, ends with a client error without an upload
\* id, and no offset record, blob or files row is made
C11_UnknownTransferRefused ==
  [][\A h \in Handlers :
       (\/ \E len \in Lengths : PostStart(h, len, NoTransfer)
        \/ (PostFind(h) /\ req[h].transferId \notin transfers))
       => (/\ req'[h].pc = "done"
           /\ req'[h].status \in ClientErrors
           /\ req'[h].id = NoId
           /\ UNCHANGED <<metaFile, blob, fileRec, allocated, issued>>)]_vars

\* C11 witness: one POST was refused for naming no transfer and one for naming
\* a transfer that is not in the table
C11_Witness ==
  \E h \in Handlers : \E g \in Handlers :
    /\ req[h].pc = "done" /\ req[h].method = "POST" /\ req[h].status = 400
    /\ req[g].pc = "done" /\ req[g].method = "POST" /\ req[g].status = 404

\* C12: a POST that names a transfer whose row exists but whose expiresAt has
\* passed, or whose status is "deleted", ends with a client error without an
\* upload id, and no offset record, blob or files row is made
C12_ExpiredTransferRefused ==
  [][\A h \in Handlers :
       (/\ PostFind(h)
        /\ req[h].transferId \in transfers
        /\ \/ req[h].transferId \in pastExpiry
           \/ transferStatus[req[h].transferId] = "deleted")
       => (/\ req'[h].pc = "done"
           /\ req'[h].status \in ClientErrors
           /\ req'[h].id = NoId
           /\ UNCHANGED <<metaFile, blob, fileRec, allocated, issued>>)]_vars

\* C13: when a POST without body is answered 201, the upload it names has an
\* offset record with offset 0, the declared size and the transfer of the
\* request, an empty blob, and a files row on that transfer that is marked
\* complete exactly when the declared size is 0
C13_CreateWithoutBytes ==
  [][\A h \in Handlers :
       PostBody(h, 0) =>
         LET u == req[h].id
         IN /\ req'[h].pc = "done" /\ req'[h].status = 201
            /\ req'[h].id = u /\ req'[h].respOffset = 0
            /\ metaFile'[u] = [present |-> TRUE, size |-> req[h].length, offset |-> 0,
                               transferId |-> req[h].transferId]
            /\ blob'[u] = [present |-> TRUE, bytes |-> <<>>]
            /\ fileRec'[u].present
            /\ fileRec'[u].transferId = req[h].transferId
            /\ fileRec'[u].uploadComplete = (req[h].length = 0)]_vars

\* C14: a POST whose body has n > 0 bytes ends as a POST without body followed by
\* an accepted PATCH at offset 0 would: a body longer than the declared size is
\* refused with a client error and stores nothing; otherwise the answer is 201
\* with Upload-Offset n, the offset record is at n, the files row has
\* uploadOffset n, and when n is the declared size the files row is marked
\* complete with that size
C14_CreateWithBytesIsCreateThenAppend ==
  [][\A h \in Handlers : \A n \in BodyLengths \ {0} :
       PostBody(h, n) =>
         LET u == req[h].id
         IN IF n > req[h].length
            THEN /\ req'[h].status \in ClientErrors
                 /\ blob'[u] = blob[u] /\ metaFile'[u] = metaFile[u]
            ELSE /\ req'[h].status = 201 /\ req'[h].respOffset = n
                 /\ metaFile'[u].offset = n
                 /\ fileRec'[u].uploadOffset = n
                 /\ (n = req[h].length) =>
                      (fileRec'[u].uploadComplete /\ fileRec'[u].size = n)]_vars

\* C15: when a PATCH is answered 204, the Upload-Offset it reports is the offset
\* it stored; if that offset is the declared size, the files row is marked
\* complete with the declared size as its size; if it is below the declared
\* size, the step leaves the completion mark of the files row as it was
C15_CompletionOnLastAppend ==
  [][\A h \in Handlers :
       (req[h].pc = "patch_update" /\ req'[h].pc = "done" /\ req'[h].status = 204)
       => LET u == req[h].id
              newOffset == req[h].meta.offset
              size == req[h].meta.size
          IN /\ req'[h].respOffset = newOffset
             /\ (newOffset = size) =>
                  (/\ fileRec'[u].present
                   /\ fileRec'[u].uploadComplete
                   /\ fileRec'[u].size = size)
             /\ (newOffset < size) =>
                  (/\ fileRec'[u].uploadComplete = fileRec[u].uploadComplete
                   /\ fileRec'[u].size = fileRec[u].size)]_vars

\* C15 witness: an upload of declared size MaxDeclared took its bytes in two
\* PATCH requests, the first from offset 0 and answered 204 below the declared
\* size, the second from there and answered 204 with the declared size, and its
\* files row is complete with that size
C15_Witness ==
  \E h \in Handlers : \E g \in Handlers \ {h} :
    LET u == req[h].id
    IN /\ u \in UploadIds /\ req[g].id = u
       /\ req[g].pc = "done" /\ req[g].method = "PATCH" /\ req[g].status = 204
       /\ req[g].claimed = 0 /\ req[g].respOffset > 0
       /\ req[h].pc = "done" /\ req[h].method = "PATCH" /\ req[h].status = 204
       /\ req[h].claimed = req[g].respOffset
       /\ req[h].respOffset = MaxDeclared
       /\ metaFile[u].present /\ metaFile[u].size = MaxDeclared
       /\ metaFile[u].offset = MaxDeclared
       /\ blob[u].bytes = Payload(0, MaxDeclared)
       /\ accepted[u] = Payload(0, MaxDeclared)
       /\ fileRec[u].uploadComplete /\ fileRec[u].size = MaxDeclared

\* C16: a HEAD changes no offset record, blob or files row; for an upload with an
\* offset record it is answered 200 with the stored offset and the declared
\* size; for an id no POST generated and for an upload a DELETE was answered
\* for, it is answered 404
C16_StatusReadOnly ==
  [][\A h \in Handlers : \A u \in AllIds :
       HEAD(h, u) =>
         /\ UNCHANGED <<metaFile, blob, fileRec>>
         /\ metaFile[u].present =>
              (/\ req'[h].status = 200
               /\ req'[h].respOffset = metaFile[u].offset
               /\ req'[h].respLength = metaFile[u].size)
         /\ (u \notin allocated \/ u \in cancelled) => req'[h].status = 404]_vars

\* C17: when a DELETE is answered, the answer is 204; if the upload had an offset
\* record below its declared size when the DELETE arrived, then at the answer
\* its offset record, blob and files row are absent; and a DELETE for an id no
\* POST generated, or for an upload a DELETE was answered for before, changes
\* no offset record, blob or files row
C17_CancelRemovesAndIsIdempotent ==
  [][/\ \A h \in Handlers :
          DeleteDb(h) =>
            LET u == req[h].id
            IN /\ req'[h].status = 204
               /\ (req[h].meta.present /\ req[h].meta.offset < req[h].meta.size) =>
                    (/\ ~metaFile'[u].present
                     /\ ~blob'[u].present
                     /\ ~fileRec'[u].present)
               /\ (u \notin allocated \/ u \in cancelled) => fileRec' = fileRec
     /\ \A h \in Handlers : \A u \in AllIds :
          (DeleteStart(h, u) /\ (u \notin allocated \/ u \in cancelled)) =>
            UNCHANGED <<metaFile, blob, fileRec>>]_vars

\* C18: a DELETE that arrives for an upload that is complete (stored offset equal
\* to the declared size, files row marked complete, no other request on it in
\* flight) removes neither its offset record nor its blob, and its files row
\* is still there when the DELETE is answered
C18_CompleteNotCancelled ==
  [][/\ \A h \in Handlers : \A u \in UploadIds :
          (/\ DeleteStart(h, u)
           /\ Quiet(u)
           /\ metaFile[u].present /\ metaFile[u].offset = metaFile[u].size
           /\ fileRec[u].present /\ fileRec[u].uploadComplete)
          => (metaFile'[u] = metaFile[u] /\ blob'[u] = blob[u])
     /\ \A h \in Handlers :
          (/\ DeleteDb(h)
           /\ req[h].meta.present /\ req[h].meta.offset = req[h].meta.size
           /\ fileRec[req[h].id].present /\ fileRec[req[h].id].uploadComplete)
          => fileRec'[req[h].id] = fileRec[req[h].id]]_vars

\* C19: when a PATCH that passed the offset check, and had no other request on
\* its upload beside it, ends without 204, the answer is 500, the stored offset
\* is still the offset the request claimed, and the blob is no longer than the
\* stored offset
C19_FailedAppendLeavesNoTrace ==
  [][\A h \in Handlers :
       (/\ req[h].pc \in {"patch_body", "patch_update"}
        /\ req'[h].pc = "done" /\ req'[h].status # 204
        /\ ~req[h].raced
        /\ \A g \in Handlers \ {h} : req[g].id # req[h].id
        /\ metaFile[req[h].id].present)
       => LET u == req[h].id
          IN /\ req'[h].status = 500
             /\ metaFile'[u].offset = req[h].claimed
             /\ Len(blob'[u].bytes) <= metaFile'[u].offset]_vars

\* C20: after a PATCH on an upload was answered 409 reporting offset k, with no
\* other request on that upload in flight or taken since, the next PATCH on it
\* that claims k passes the offset check; and if, still alone on the upload, it
\* started below the declared size and its body ends within it, it is answered
\* 204 with the offset past its body
C20_ResumeAfterMismatch ==
  [][\A h \in Handlers :
       /\ \A u \in UploadIds : \A k \in ClaimedOffsets :
            (/\ PatchStart(h, u, k)
             /\ Resumes(u, k)
             /\ \A g \in Handlers \ {h} : Free(g) \/ req[g].id # u)
            => (req'[h].pc = "patch_body" /\ fresh'[h])
       /\ (/\ PatchUpdate(h)
           /\ fresh[h]
           /\ req[h].claimed < req[h].meta.size
           /\ req[h].meta.offset <= req[h].meta.size)
          => (req'[h].status = 204 /\ req'[h].respOffset = req[h].meta.offset)]_vars

\* C21: when a PATCH is answered 204 with Upload-Offset m and the upload still
\* has its offset record, the offset stored in that record is at least m
C21_OffsetStoredBeforeAnswer ==
  [][\A h \in Handlers :
       (/\ PatchUpdate(h)
        /\ req'[h].status = 204
        /\ metaFile[req[h].id].present)
       => metaFile'[req[h].id].offset >= req'[h].respOffset]_vars

\* C22: a PATCH that passed the offset check below the declared size and whose
\* body is empty leaves the blob and the offset record as they are when the
\* body is read, and is then answered 204 with the offset it claimed, the
\* completion mark of the files row as it was
C22_EmptyAppendIsProbe ==
  [][\A h \in Handlers :
       /\ (PatchWrite(h, 0) /\ req[h].claimed < req[h].meta.size)
          => (/\ blob'[req[h].id] = blob[req[h].id]
              /\ metaFile'[req[h].id] = metaFile[req[h].id])
       /\ (/\ PatchUpdate(h)
           /\ req[h].meta.offset = req[h].claimed
           /\ req[h].claimed < req[h].meta.size)
          => (/\ req'[h].status = 204
              /\ req'[h].respOffset = req[h].claimed
              /\ fileRec'[req[h].id].uploadComplete
                   = fileRec[req[h].id].uploadComplete)]_vars

\* C23: a PATCH or a HEAD for an id that has no offset record is answered 404,
\* and no offset record, blob or files row is made or changed
C23_NoRecordNotFound ==
  [][\A h \in Handlers :
       (/\ Free(h) /\ req'[h] # req[h]
        /\ req'[h].method \in {"PATCH", "HEAD"}
        /\ ~metaFile[req'[h].id].present)
       => (/\ req'[h].pc = "done"
           /\ req'[h].status = 404
           /\ UNCHANGED <<metaFile, blob, fileRec, allocated>>)]_vars

\* C23 witness: a PATCH for an id no POST generated and a HEAD for an upload a
\* DELETE was answered for were both answered 404
C23_Witness ==
  \E h \in Handlers : \E g \in Handlers :
    /\ req[h].pc = "done" /\ req[h].method = "PATCH" /\ req[h].status = 404
    /\ req[h].id = BogusId
    /\ req[g].pc = "done" /\ req[g].method = "HEAD" /\ req[g].status = 404
    /\ req[g].id \in cancelled

\* C24: no step changes the declared size or the transfer id of an offset record
\* that exists before and after it, and the record a PATCH writes carries the
\* declared size and the transfer id of the record it read
C24_SizeAndMetadataImmutable ==
  [][/\ \A u \in AllIds :
          (metaFile[u].present /\ metaFile'[u].present)
          => (/\ metaFile'[u].size = metaFile[u].size
              /\ metaFile'[u].transferId = metaFile[u].transferId)
     /\ \A h \in Handlers : \A n \in BodyLengths :
          PatchWrite(h, n)
          => (/\ metaFile'[req[h].id].size = req[h].meta.size
              /\ metaFile'[req[h].id].transferId = req[h].meta.transferId)]_vars

\* C24 witness: an upload of declared size MaxDeclared whose POST carried bytes
\* and that a PATCH then advanced still has that size and its transfer id
C24_Witness ==
  \E h \in Handlers : \E g \in Handlers \ {h} :
    LET u == req[h].id
    IN /\ u \in UploadIds /\ req[g].id = u
       /\ req[h].pc = "done" /\ req[h].method = "POST" /\ req[h].status = 201
       /\ req[h].respOffset > 0
       /\ req[g].pc = "done" /\ req[g].method = "PATCH" /\ req[g].status = 204
       /\ req[g].claimed = req[h].respOffset /\ req[g].respOffset > req[g].claimed
       /\ metaFile[u].present /\ metaFile[u].offset = req[g].respOffset
       /\ metaFile[u].size = MaxDeclared
       /\ metaFile[u].transferId \in TransferIds

\* C25: when cleanup of an expired transfer, or its deletion by the owner,
\* removes the uploads of the transfer, every one of them that was created and
\* has no request in flight has neither blob nor offset record afterwards
C25_RemovedTogether ==
  [][\A t \in TransferIds : \A u \in UploadIds :
       (/\ Cleanup(t) \/ DeleteTransfer(t)
        /\ u \in issued /\ Quiet(u)
        /\ fileRec[u].present /\ fileRec[u].transferId = t)
       => (~blob'[u].present /\ ~metaFile'[u].present)]_vars

\* C26: a PATCH whose body arrives after a DELETE for its upload was answered
\* does not make the offset record or the blob of that upload again
C26_AppendAfterCancelWritesNothing ==
  [][\A h \in Handlers : \A n \in BodyLengths :
       (PatchWrite(h, n) /\ req[h].id \in cancelled)
       => (~metaFile'[req[h].id].present /\ ~blob'[req[h].id].present)]_vars

Listed(t) ==
  IF t \notin transfers \/ transferStatus[t] = "deleted" \/ t \in pastExpiry
  THEN {}
  ELSE {u \in UploadIds : /\ fileRec[u].present
                          /\ fileRec[u].transferId = t
                          /\ fileRec[u].uploadComplete}

\* download route 18-33 and 53-90: the bytes GET .../files/u answers with,
\* <<>> standing for a 404 or 410
Download(t, u) ==
  IF u \in Listed(t) /\ blob[u].present THEN blob[u].bytes ELSE <<>>

\* C28: a file that is listed or served is marked complete, and, with no
\* request on it in flight, its blob holds exactly the declared number of bytes
C28_ServedFileHasDeclaredSize ==
  \A t \in TransferIds : \A u \in UploadIds :
    (u \in Listed(t) /\ Quiet(u)) =>
      /\ fileRec[u].uploadComplete
      /\ metaFile[u].present
      /\ blob[u].present
      /\ Len(Download(t, u)) = metaFile[u].size

\* C29: with no request on an upload in flight, the uploadOffset column of its
\* files row equals the offset of its offset record
C29_ColumnEqualsStoredOffset ==
  \A u \in UploadIds :
    (u \in issued /\ Quiet(u) /\ metaFile[u].present /\ fileRec[u].present) =>
      fileRec[u].uploadOffset = metaFile[u].offset

\* C30: a POST that allocated an upload id and was answered with anything but
\* 201 leaves no offset record, blob or files row of that id
C30_FailedCreateLeavesNothing ==
  \A h \in Handlers :
    (/\ req[h].pc = "done" /\ req[h].method = "POST"
     /\ req[h].status # 201 /\ req[h].id \in UploadIds) =>
      /\ ~metaFile[req[h].id].present
      /\ ~blob[req[h].id].present
      /\ ~fileRec[req[h].id].present

====
